---- MODULE Spec2Model ----
(***************************************************************************)
(* PS2 icon.sys title editor (name_icons_interactive_v2.py) and title.cfg  *)
(* editor (edit_title_cfg_interactive.py).                                 *)
(*                                                                         *)
(* Text is a sequence of Unicode code points, file content a sequence of   *)
(* bytes (0..255).  Sequences are 1-based, so the byte at Python index k   *)
(* is element k+1.                                                         *)
(***************************************************************************)
EXTENDS Integers, Sequences, FiniteSets, TLC

(* ------------------------------ bounds -------------------------------- *)
\* number of icon.sys files the directory walk discovers
NumFiles == 2
\* length of the longest title.cfg (in lines) the editor is run on
MaxCfgLines == 3

(* ------------------------- program constants -------------------------- *)
TITLE_OFFSET_DEFAULT == 192
TITLE_BLOCK_LEN_DEFAULT == 68
SPLIT_OFFSET_POS == 6
\* the "16 characters" limit of write_titles and main
MaxLineChars == 16

(* --------------------------- sequence helpers ------------------------- *)
Min(a, b) == IF a < b THEN a ELSE b
Max(a, b) == IF a > b THEN a ELSE b

\* n copies of x
Rep(x, n) == [k \in 1..n |-> x]

\* Python slice bounds: a negative index counts from the end, then clip
PyIndex(k, n) == IF k < 0 THEN Max(k + n, 0) ELSE Min(k, n)

\* s[lo:hi]
PySlice(s, lo, hi) ==
    LET a == PyIndex(lo, Len(s))
        b == PyIndex(hi, Len(s))
    IN  IF b <= a THEN << >> ELSE SubSeq(s, a + 1, b)

\* s[lo:hi] = t   (bytearray slice assignment)
PySliceAssign(s, lo, hi, t) ==
    LET a == PyIndex(lo, Len(s))
        b == Max(a, PyIndex(hi, Len(s)))
    IN  SubSeq(s, 1, a) \o t \o SubSeq(s, b + 1, Len(s))

\* s[:n].ljust(n, b'\x00')
TruncPad(s, n) ==
    LET t == PySlice(s, 0, n)
    IN  IF Len(t) < n THEN t \o Rep(0, n - Len(t)) ELSE t

\* mutant: the zero bytes are removed instead of ending the line
CutAtZeroDropsZeros(s) == SelectSeq(s, LAMBDA x : x # 0)

\* s.split(b'\x00', 1)[0] when 0 is in s, else s
CutAtZero(s) ==
    IF \E k \in 1..Len(s) : s[k] = 0
    THEN SubSeq(s, 1, (CHOOSE k \in 1..Len(s) :
                          s[k] = 0 /\ \A j \in 1..(k - 1) : s[j] # 0) - 1)
    ELSE s

(* ---------------------- characters of the model ----------------------- *)
\* The code points the texts of the model are made of: the ASCII characters
\* " ' - A Q S ` b e q s and space, Latin-1 e-acute, and the characters the
\* transforms and the stored bytes of the model produce from them; for the
\* title.cfg editor tab, line feed, carriage return, # ; = a k v w.
Ch == [ tab |-> 9, lf |-> 10, cr |-> 13, hash |-> 35, semi |-> 59,
        eq |-> 61, a |-> 97, k |-> 107, v |-> 118, w |-> 119,
        space |-> 32, quote |-> 34, apos |-> 39, hyphen |-> 45,
        A |-> 65, Q |-> 81, S |-> 83, grave |-> 96, b |-> 98, e |-> 101,
        q |-> 113, s |-> 115, eacute |-> 233,
        rsquo |-> 8217, idspace |-> 12288, ka |-> 12363, ga |-> 12364,
        longvowel |-> 12540, fwgrave |-> 65344, hwkana |-> 65386 ]

(* ------------------------- ascii_to_fullwidth ------------------------- *)
\* REPLACEMENTS: apostrophe -> U+2019, hyphen -> U+30FC, subscript digits
\* U+2080..U+2089 -> full-width digits U+FF10..U+FF19
REPLACEMENTS(c) ==
    IF c = Ch.apos THEN Ch.rsquo
    ELSE IF c = Ch.hyphen THEN Ch.longvowel
    ELSE IF c >= 8320 /\ c <= 8329 THEN 65296 + (c - 8320)
    ELSE c

\* unicodedata.normalize('NFD', c)[0] for the characters of the model:
\* e-acute -> e, hiragana GA -> KA; the others have no decomposition
NfdFirst(c) ==
    IF c = Ch.eacute THEN Ch.e
    ELSE IF c = Ch.ga THEN Ch.ka
    ELSE c

\* one iteration of the loop of ascii_to_fullwidth
FullwidthChar(c0) ==
    LET c == NfdFirst(REPLACEMENTS(c0))
    IN  IF c >= 33 /\ c <= 126 THEN c + 65248
        ELSE IF c = Ch.space THEN Ch.idspace
        ELSE c

ascii_to_fullwidth(text) == [k \in 1..Len(text) |-> FullwidthChar(text[k])]

(* ----------------------------- Shift-JIS ------------------------------ *)
\* c.encode('shift_jis') for one character: the bytes, or << >> when the
\* codec raises UnicodeEncodeError.  Full-width digits and letters and the
\* hiragana are rows 0x82 of the code page; half-width katakana and ASCII
\* are single bytes; full-width '"' (U+FF02), apostrophe (U+FF07),
\* hyphen-minus (U+FF0D) and tilde (U+FF5E) are not in JIS X 0208.
SjisBytes(c) ==
    IF c < 128 THEN << c >>
    ELSE IF c >= 65296 /\ c <= 65305 THEN << 130, 79 + (c - 65296) >>
    ELSE IF c >= 65313 /\ c <= 65338 THEN << 130, 96 + (c - 65313) >>
    ELSE IF c >= 65345 /\ c <= 65370 THEN << 130, 129 + (c - 65345) >>
    ELSE IF c >= 12353 /\ c <= 12435 THEN << 130, 159 + (c - 12353) >>
    ELSE IF c >= 65377 /\ c <= 65439 THEN << c - 65216 >>
    ELSE IF c = Ch.idspace THEN << 129, 64 >>
    ELSE IF c = Ch.fwgrave THEN << 129, 77 >>
    ELSE IF c = Ch.longvowel THEN << 129, 91 >>
    ELSE IF c = Ch.rsquo THEN << 129, 102 >>
    ELSE << >>

can_encode_shift_jis(c) == SjisBytes(c) # << >>

sanitize_for_shift_jis(text) == SelectSeq(text, can_encode_shift_jis)

RECURSIVE SjisEncode(_)
SjisEncode(text) ==
    IF text = << >> THEN << >>
    ELSE SjisBytes(Head(text)) \o SjisEncode(Tail(text))

encode_line(text_ascii) ==
    SjisEncode(sanitize_for_shift_jis(ascii_to_fullwidth(text_ascii)))

\* the character of a two-byte sequence, or -1 when the pair is invalid
SjisPair(c1, c2) ==
    IF c1 = 130 /\ c2 >= 79 /\ c2 <= 88 THEN 65296 + (c2 - 79)
    ELSE IF c1 = 130 /\ c2 >= 96 /\ c2 <= 121 THEN 65313 + (c2 - 96)
    ELSE IF c1 = 130 /\ c2 >= 129 /\ c2 <= 154 THEN 65345 + (c2 - 129)
    ELSE IF c1 = 130 /\ c2 >= 159 /\ c2 <= 241 THEN 12353 + (c2 - 159)
    ELSE IF c1 = 129 /\ c2 = 64 THEN Ch.idspace
    ELSE IF c1 = 129 /\ c2 = 77 THEN Ch.fwgrave
    ELSE IF c1 = 129 /\ c2 = 91 THEN Ch.longvowel
    ELSE IF c1 = 129 /\ c2 = 102 THEN Ch.rsquo
    ELSE -1

IsLeadByte(c) == (c >= 129 /\ c <= 159) \/ (c >= 224 /\ c <= 234)

\* b.decode('shift_jis', errors='ignore'): an ASCII byte is itself, a byte
\* 0xA1..0xDF a half-width katakana, a lead byte with a valid trail byte one
\* character; anything else is an error of one byte, which is skipped
RECURSIVE SjisDecode(_)
SjisDecode(b) ==
    IF b = << >> THEN << >>
    ELSE LET c == Head(b)
         IN  IF c < 128 THEN << c >> \o SjisDecode(Tail(b))
             ELSE IF c >= 161 /\ c <= 223
                  THEN << 65216 + c >> \o SjisDecode(Tail(b))
             ELSE IF IsLeadByte(c) /\ Len(b) >= 2 /\ SjisPair(c, b[2]) # -1
                  THEN << SjisPair(c, b[2]) >> \o SjisDecode(Tail(Tail(b)))
             ELSE SjisDecode(Tail(b))

(* ---------------------- decode_fw_sjis_to_ascii ----------------------- *)
NarrowChar(code) ==
    IF code >= 65281 /\ code <= 65374 THEN code - 65248
    ELSE IF code = Ch.idspace THEN Ch.space
    ELSE code

\* the loop over the decoded string
RECURSIVE NarrowText(_)
NarrowText(s) ==
    IF s = << >> THEN << >>
    ELSE << NarrowChar(Head(s)) >> \o NarrowText(Tail(s))

decode_fw_sjis_to_ascii(b) == NarrowText(SjisDecode(b))

(* ------------------------ read_current_titles ------------------------- *)
\* the split value read_current_titles uses
EffectiveSplit(data, block_len) ==
    LET split == IF Len(data) > SPLIT_OFFSET_POS
                 THEN data[SPLIT_OFFSET_POS + 1] ELSE 0
    IN  IF split > block_len THEN Min(split, block_len) ELSE split

read_current_titles(data, title_offset, block_len) ==
    LET block == PySlice(data, title_offset, title_offset + block_len)
        split == EffectiveSplit(data, block_len)
        line1_bytes == CutAtZero(PySlice(block, 0, split))
        line2_bytes == CutAtZero(PySlice(block, split, Len(block)))
    IN  << decode_fw_sjis_to_ascii(line1_bytes),
           decode_fw_sjis_to_ascii(line2_bytes) >>

(* ---------------------------- write_titles ---------------------------- *)
\* mutant: the limit taken as exclusive
TooLongOffByOne(text) == Len(text) >= MaxLineChars

\* "if len(line_txt) > 16": the length check on the text as typed
TooLong(text) == Len(text) > MaxLineChars

\* mutant: a line that fills the block exactly counted as overflow
OverflowsWhenFull(l1, block_len) == Len(l1) >= block_len

\* "if split_offset > block_len"
Overflows(l1, block_len) == Len(l1) > block_len

\* combined[:block_len].ljust(block_len, b'\x00')
TitleBlock(l1, l2, block_len) == TruncPad(l1 \o l2, block_len)

\* mutant: extends by n instead of up to n
ExtendByN(data, n) ==
    IF Len(data) < n THEN data \o Rep(0, n) ELSE data

\* data.extend(b'\x00' * (n - len(data))) when len(data) < n
Extend(data, n) ==
    IF Len(data) < n THEN data \o Rep(0, n - Len(data)) ELSE data

\* mutant: the split counts characters instead of encoded bytes
SplitByteCountsChars(l1) == (Len(l1) \div 2) % 256

\* split_offset & 0xFF
SplitByte(l1) == Len(l1) % 256

\* the bytearray after the two writes of write_titles
PatchedData(data, l1, l2, title_offset, block_len) ==
    LET grown  == Extend(Extend(data, title_offset + block_len),
                         SPLIT_OFFSET_POS + 1)
        marked == [grown EXCEPT ![SPLIT_OFFSET_POS + 1] = SplitByte(l1)]
    IN  PySliceAssign(marked, title_offset, title_offset + block_len,
                      TitleBlock(l1, l2, block_len))

\* a file that does not exist
NoFile == << -1 >>

\* mutant: the backup is rewritten on every edit
NeedBackupAlways(do_backup, bak) == do_backup

\* "if do_backup: if not bak.exists()"
NeedBackup(do_backup, bak) == do_backup /\ bak = NoFile

\* write_titles on a file whose bytes on disk are data and whose .bak is
\* bak.  perm is what the file system allows on the file: "rw", "r" (opening
\* it for writing fails) or "none" (reading it fails).  The result is the
\* state of the two files and how the call ended: "ok", or the exception.
write_titles(data, bak, perm, line1_txt, line2_txt, title_offset, block_len, do_backup) ==
    LET l1 == encode_line(line1_txt)
        l2 == encode_line(line2_txt)
        fail(e, b) == [status |-> e, data |-> data, bak |-> b]
        bak2 == IF NeedBackup(do_backup, bak) THEN data ELSE bak
    IN  IF perm = "none" THEN fail("IOFailure", bak)
        ELSE IF TooLong(line1_txt) \/ TooLong(line2_txt)
             THEN fail("LineTooLong", bak)
        ELSE IF Overflows(l1, block_len) THEN fail("Overflow", bak)
        ELSE IF perm = "r" THEN fail("IOFailure", bak2)
        ELSE [status |-> "ok",
              data |-> PatchedData(data, l1, l2, title_offset, block_len),
              bak |-> bak2]

(* ------------------------------- state -------------------------------- *)
VARIABLES
    title_offset,   \* args.offset
    block_len,      \* args.block_len
    do_backup,      \* not args.no_backup
    p_data,         \* bytes on disk of the file p being edited
    p_bak,          \* bytes on disk of p's .bak, or NoFile
    p_perm,         \* what the file system allows on p
    orig,           \* bytes of p when the program first met it
    op,             \* the last operation on p
    line1, line2,   \* the texts handed to the last write_titles
    status,         \* how the last operation ended
    cur,            \* << cur1, cur2 >>, the last preview
    edits,          \* calls of write_titles on p that ended "ok"
    i,              \* main: index of the file of the current iteration
    pc,             \* main: position in the loop
    in1, in2,       \* main: what the user typed at the two prompts
    errors,         \* main: "ERROR" lines printed so far
    no_backup,      \* title.cfg editor: args.no_backup
    cfg_file,       \* bytes on disk of the title.cfg being edited
    cfg_bak,        \* bytes on disk of its .bak, or NoFile
    cfg_orig,       \* bytes of the title.cfg when process_file began
    enc, nl,        \* process_file: the encoding and line break detected
    lines,          \* process_file: txt.splitlines()
    new_lines,      \* process_file: the lines to save
    line_k,         \* process_file: lines the loop has taken
    changed,        \* process_file: a line differs from what was read
    quit_all,       \* process_file: 'qa' was entered
    cfg_res,        \* how process_file ended on the file
    cfg_pc,         \* title.cfg editor: position in main and process_file
    file_n          \* title.cfg editor: files main has taken

iconVars == << title_offset, block_len, do_backup, p_data, p_bak, p_perm,
               orig, op, line1, line2, status, cur, edits >>
mainVars == << i, pc, in1, in2, errors >>
cfgVars == << no_backup, cfg_file, cfg_bak, cfg_orig, enc, nl, lines,
              new_lines, line_k, changed, quit_all, cfg_res, cfg_pc, file_n >>
vars == << iconVars, mainVars, cfgVars >>

(* --------------------------- inputs of the model ---------------------- *)
\* (title block start, title block length): a small block after the split
\* byte, a small block that covers the split byte, and the defaults
Layouts ==
    { << 8, 4 >>, << 4, 4 >>,
      << TITLE_OFFSET_DEFAULT, TITLE_BLOCK_LEN_DEFAULT >> }

\* a file of the layout: filler 'P' bytes, split byte sb, title block blk
\* (zero padded), two more bytes after the block
FileImage(off, len, sb, blk) ==
    LET n == Max(off + len, SPLIT_OFFSET_POS + 1)
        base == [Rep(80, n) EXCEPT ![SPLIT_OFFSET_POS + 1] = sb]
    IN  PySliceAssign(base, off, off + len, TruncPad(blk, len))
           \o << 171, 205 >>

\* the file, and the file cut short at the lengths where the code branches
Truncations(img, off, len) ==
    { PySlice(img, 0, n) : n \in { 0, 3, off + 2, off + len, Len(img) } }

\* texts for line 1 and line 2
Line1Texts ==
    { << >>, << Ch.A >>, << Ch.apos >>, << Ch.hyphen >>, << Ch.quote >>,
      << Ch.eacute >>, << Ch.A, Ch.hyphen >>, << Ch.quote, Ch.A >>,
      << Ch.A, Ch.space, Ch.A >>,
      Rep(Ch.A, MaxLineChars), Rep(Ch.A, MaxLineChars + 1),
      Rep(Ch.quote, MaxLineChars + 1),
      Rep(Ch.A, MaxLineChars - 1) \o << Ch.apos >> }
Line2Texts ==
    { << >>, << Ch.A >>, << Ch.hyphen >>,
      Rep(Ch.A, MaxLineChars), Rep(Ch.A, MaxLineChars + 1) }

NoPreview == << << >>, << >> >>

(* ---------------- the codec called on one file (SpecCodec) ------------ *)
CodecFiles(off, len) ==
    UNION { Truncations(FileImage(off, len, sb, blk), off, len) :
              sb \in { 0, 2, 255 },
              blk \in { << >>, << 130, 96, 130, 96 >> } }

InitCodec ==
    /\ no_backup = FALSE
    /\ cfg_file = << >> /\ cfg_bak = NoFile /\ cfg_orig = << >>
    /\ enc = "none" /\ nl = << >>
    /\ lines = << >> /\ new_lines = << >> /\ line_k = 0
    /\ changed = FALSE /\ quit_all = FALSE
    /\ cfg_res = "none" /\ cfg_pc = "off" /\ file_n = 0
    /\ \E lay \in Layouts :
          /\ title_offset = lay[1]
          /\ block_len = lay[2]
          /\ p_data \in CodecFiles(lay[1], lay[2])
    /\ do_backup \in BOOLEAN
    /\ p_perm \in { "rw", "r" }
    /\ p_bak = NoFile
    /\ orig = p_data
    /\ op = "none"
    /\ line1 = << >> /\ line2 = << >>
    /\ status = "none"
    /\ cur = NoPreview
    /\ edits = 0
    /\ i = 0 /\ pc = "codec" /\ in1 = << >> /\ in2 = << >> /\ errors = 0

\* the effect of write_titles(p, l1, l2, title_offset, block_len, do_backup)
WriteStep(l1, l2) ==
    LET r == write_titles(p_data, p_bak, p_perm, l1, l2,
                          title_offset, block_len, do_backup)
    IN  /\ p_data' = r.data
        /\ p_bak' = r.bak
        /\ status' = r.status
        /\ line1' = l1 /\ line2' = l2
        /\ op' = "write"
        /\ edits' = IF r.status = "ok" THEN edits + 1 ELSE edits

\* one call of write_titles on the file
CallWriteTitles ==
    /\ UNCHANGED cfgVars
    /\ op = "none"
    /\ \E l1 \in Line1Texts, l2 \in Line2Texts : WriteStep(l1, l2)
    /\ cur' = NoPreview
    /\ UNCHANGED << title_offset, block_len, do_backup, p_perm, orig,
                    mainVars >>

\* read_current_titles(p.read_bytes(), title_offset, block_len)
CallReadTitles ==
    /\ UNCHANGED cfgVars
    /\ op # "read"
    /\ cur' = read_current_titles(p_data, title_offset, block_len)
    /\ op' = "read"
    /\ UNCHANGED << title_offset, block_len, do_backup, p_data, p_bak,
                    p_perm, orig, line1, line2, status, edits, mainVars >>

NextCodec == CallWriteTitles \/ CallReadTitles

SpecCodec == InitCodec /\ [][NextCodec]_vars

(* ------------- repeated edits of one file (SpecEdits) ----------------- *)
\* edits of the same file that the model follows
MaxEdits == 2

EditTexts1 == { << >>, << Ch.A >>, Rep(Ch.A, MaxLineChars + 1) }
EditTexts2 == { << >>, << Ch.hyphen >> }

\* one more edit of the file, in this run or a later one
EditAgain ==
    /\ UNCHANGED cfgVars
    /\ edits < MaxEdits
    /\ \E l1 \in EditTexts1, l2 \in EditTexts2 : WriteStep(l1, l2)
    /\ cur' = NoPreview
    /\ UNCHANGED << title_offset, block_len, do_backup, p_perm, orig,
                    mainVars >>

NextEdits == EditAgain

SpecEdits == InitCodec /\ [][NextEdits]_vars

(* ------------------- main of the icon.sys editor (Spec) --------------- *)
\* The loop of main takes the discovered files one at a time.  p_data,
\* p_bak, p_perm and orig are the file of the current iteration; its bytes
\* are what the loop finds on disk when it gets there.

\* title block contents: two-byte pieces (full-width A, hiragana GA, ASCII
\* '"A', zeros, ASCII A followed by a lead byte), alone or in pairs, and a
\* line of 17 ASCII letters
Pieces ==
    { << 130, 96 >>, << 130, 170 >>, << 34, 65 >>, << 0, 0 >>, << 65, 130 >> }

MainBlocks(len) ==
    IF len <= 4
    THEN { a \o b : a \in Pieces, b \in Pieces }
    ELSE { << >>, << 130, 96, 130, 96 >>, << 130, 170, 34 >>,
           Rep(65, MaxLineChars + 1) }

MainFiles(off, len) ==
    UNION { Truncations(FileImage(off, len, sb, blk), off, len) :
              sb \in { 0, 2, 3, MaxLineChars + 1, 255 },
              blk \in MainBlocks(len) }

\* answers at "New Line 1" and "New Line 2"
Prompt1 ==
    { << >>, << Ch.q >>, << Ch.S >>, << Ch.A >>, << Ch.hyphen >>,
      Rep(Ch.A, MaxLineChars + 1) }
Prompt2 == { << >>, << Ch.A >>, Rep(Ch.A, MaxLineChars + 1) }

\* str.lower() on the letters of the model
Lower(text) ==
    [k \in 1..Len(text) |->
        IF text[k] >= 65 /\ text[k] <= 90 THEN text[k] + 32 ELSE text[k]]

\* 'if l == "": l = cur'
Resolve(typed, current) == IF typed = << >> THEN current ELSE typed

\* mutant: an error while writing ends the loop
NextPcStopsOnIOFailure(st) ==
    IF st \in { "Quit", "IOFailure" } THEN "done" ELSE "next"

\* where the loop goes after an iteration: 'break' on quit, else on to the
\* next file ('continue', or the end of the body)
NextPc(st) == IF st = "Quit" THEN "done" ELSE "next"

Init ==
    /\ no_backup = FALSE
    /\ cfg_file = << >> /\ cfg_bak = NoFile /\ cfg_orig = << >>
    /\ enc = "none" /\ nl = << >>
    /\ lines = << >> /\ new_lines = << >> /\ line_k = 0
    /\ changed = FALSE /\ quit_all = FALSE
    /\ cfg_res = "none" /\ cfg_pc = "off" /\ file_n = 0
    /\ \E lay \in Layouts : title_offset = lay[1] /\ block_len = lay[2]
    /\ do_backup \in BOOLEAN
    /\ p_data = << >> /\ p_bak = NoFile /\ p_perm = "rw" /\ orig = << >>
    /\ op = "none"
    /\ line1 = << >> /\ line2 = << >>
    /\ status = "none"
    /\ cur = NoPreview
    /\ edits = 0
    /\ i = 0 /\ pc = "next" /\ in1 = << >> /\ in2 = << >> /\ errors = 0

\* the file of the iteration as the loop finds it
OpenFile(d, perm) ==
    /\ i' = i + 1
    /\ p_data' = d /\ orig' = d /\ p_bak' = NoFile /\ p_perm' = perm
    /\ line1' = << >> /\ line2' = << >> /\ in1' = << >> /\ in2' = << >>
    /\ edits' = 0
    /\ UNCHANGED << title_offset, block_len, do_backup >>

\* p.read_bytes() raises: "ERROR reading", continue
ReadFails ==
    /\ UNCHANGED cfgVars
    /\ pc = "next" /\ i < NumFiles
    /\ \E d \in MainFiles(title_offset, block_len) : OpenFile(d, "none")
    /\ op' = "none"
    /\ cur' = NoPreview
    /\ status' = "ReadError"
    /\ errors' = errors + 1
    /\ pc' = "report"

\* data = p.read_bytes(), then the preview:
\* cur1, cur2 = read_current_titles(data, args.offset, args.block_len)
ReadFile ==
    /\ UNCHANGED cfgVars
    /\ pc = "next" /\ i < NumFiles
    /\ \E d \in MainFiles(title_offset, block_len), perm \in { "rw", "r" } :
          /\ OpenFile(d, perm)
          /\ cur' = read_current_titles(d, title_offset, block_len)
    /\ op' = "read"
    /\ status' = "none"
    /\ pc' = "prompt"
    /\ UNCHANGED errors

\* 'q' at the first prompt
QuitAll ==
    /\ UNCHANGED cfgVars
    /\ pc = "prompt"
    /\ \E a \in Prompt1 : Lower(a) = << Ch.q >> /\ in1' = a
    /\ status' = "Quit"
    /\ pc' = "report"
    /\ UNCHANGED << title_offset, block_len, do_backup, p_data, p_bak,
                    p_perm, orig, op, line1, line2, cur, edits, i, in2,
                    errors >>

\* 's' at the first prompt
SkipFile ==
    /\ UNCHANGED cfgVars
    /\ pc = "prompt"
    /\ \E a \in Prompt1 : Lower(a) = << Ch.s >> /\ in1' = a
    /\ status' = "Skipped"
    /\ pc' = "report"
    /\ UNCHANGED << title_offset, block_len, do_backup, p_data, p_bak,
                    p_perm, orig, op, line1, line2, cur, edits, i, in2,
                    errors >>

\* both prompts answered with something other than 'q' or 's'
Answered(a, b) ==
    /\ a \in Prompt1 /\ b \in Prompt2
    /\ Lower(a) # << Ch.q >> /\ Lower(a) # << Ch.s >>

\* "ERROR: Line n exceeds 16 characters ... Skipping."
RejectTooLong ==
    /\ UNCHANGED cfgVars
    /\ pc = "prompt"
    /\ \E a \in Prompt1, b \in Prompt2 :
          /\ Answered(a, b)
          /\ TooLong(Resolve(a, cur[1])) \/ TooLong(Resolve(b, cur[2]))
          /\ in1' = a /\ in2' = b
          /\ line1' = Resolve(a, cur[1]) /\ line2' = Resolve(b, cur[2])
    /\ status' = "LineTooLong"
    /\ errors' = errors + 1
    /\ pc' = "report"
    /\ UNCHANGED << title_offset, block_len, do_backup, p_data, p_bak,
                    p_perm, orig, op, cur, edits, i >>

\* write_titles(p, l1, l2, ...): "Written." or "ERROR writing"
WriteFile ==
    /\ UNCHANGED cfgVars
    /\ pc = "prompt"
    /\ \E a \in Prompt1, b \in Prompt2 :
          /\ Answered(a, b)
          /\ ~TooLong(Resolve(a, cur[1])) /\ ~TooLong(Resolve(b, cur[2]))
          /\ in1' = a /\ in2' = b
          /\ WriteStep(Resolve(a, cur[1]), Resolve(b, cur[2]))
    /\ errors' = IF status' = "ok" THEN errors ELSE errors + 1
    /\ pc' = "report"
    /\ UNCHANGED << title_offset, block_len, do_backup, p_perm, orig, cur,
                    i >>

\* the iteration is over: on to the next file, or out of the loop
Advance ==
    /\ UNCHANGED cfgVars
    /\ pc = "report"
    /\ pc' = NextPc(status)
    /\ status' = IF status = "Quit" THEN "Quit" ELSE "none"
    /\ p_data' = << >> /\ orig' = << >> /\ p_bak' = NoFile /\ p_perm' = "rw"
    /\ line1' = << >> /\ line2' = << >> /\ in1' = << >> /\ in2' = << >>
    /\ cur' = NoPreview /\ edits' = 0 /\ op' = "none"
    /\ UNCHANGED << title_offset, block_len, do_backup, i, errors >>

\* the list is exhausted: print("Done.")
Finish ==
    /\ UNCHANGED cfgVars
    /\ pc = "next" /\ i = NumFiles
    /\ pc' = "done"
    /\ UNCHANGED << iconVars, i, in1, in2, errors >>

Next ==
    \/ ReadFails \/ ReadFile
    \/ QuitAll \/ SkipFile \/ RejectTooLong \/ WriteFile
    \/ Advance \/ Finish

Spec == Init /\ [][Next]_vars

(* ============ the title.cfg editor (edit_title_cfg_interactive.py) ==== *)
\* Texts are sequences of code points and files are sequences of bytes.

\* the smallest and the largest of a non-empty set of positions
FirstIn(ks) == CHOOSE k \in ks : \A j \in ks : k <= j
LastIn(ks) == CHOOSE k \in ks : \A j \in ks : k >= j

\* str.isspace() of one character
IsSpace(c) ==
    \/ c \in { 9, 10, 11, 12, 13, 28, 29, 30, 31, 32, 133, 160, 5760,
               8232, 8233, 8239, 8287, 12288 }
    \/ (c >= 8192 /\ c <= 8202)

\* the characters str.splitlines() ends a line at
IsLineBreak(c) == c \in { 10, 11, 12, 13, 28, 29, 30, 133, 8232, 8233 }

\* s.lstrip()
LStrip(s) ==
    LET ks == { k \in 1..Len(s) : ~IsSpace(s[k]) }
    IN  IF ks = {} THEN << >> ELSE SubSeq(s, FirstIn(ks), Len(s))

\* s.strip()
Strip(s) ==
    LET ks == { k \in 1..Len(s) : ~IsSpace(s[k]) }
    IN  IF ks = {} THEN << >> ELSE SubSeq(s, FirstIn(ks), LastIn(ks))

\* s.rstrip(chars)
RStripChars(s, chars) ==
    LET ks == { k \in 1..Len(s) : s[k] \notin chars }
    IN  IF ks = {} THEN << >> ELSE SubSeq(s, 1, LastIn(ks))

\* pat in s
Contains(s, pat) ==
    \E k \in 1..(Len(s) - Len(pat) + 1) : SubSeq(s, k, k + Len(pat) - 1) = pat

\* s.replace(pat, rep), pat not empty
RECURSIVE Replace(_, _, _)
Replace(s, pat, rep) ==
    IF Len(s) < Len(pat) THEN s
    ELSE IF SubSeq(s, 1, Len(pat)) = pat
         THEN rep \o Replace(SubSeq(s, Len(pat) + 1, Len(s)), pat, rep)
         ELSE << Head(s) >> \o Replace(Tail(s), pat, rep)

\* s.splitlines(): "\r\n" is one line break, and the text after the last
\* line break is a line only when it is not empty
RECURSIVE SplitLines(_)
SplitLines(s) ==
    LET ks == { k \in 1..Len(s) : IsLineBreak(s[k]) }
    IN  IF s = << >> THEN << >>
        ELSE IF ks = {} THEN << s >>
        ELSE LET k == FirstIn(ks)
                 m == IF s[k] = Ch.cr /\ k < Len(s) /\ s[k + 1] = Ch.lf
                      THEN k + 1 ELSE k
             IN  << SubSeq(s, 1, k - 1) >> \o SplitLines(SubSeq(s, m + 1, Len(s)))

\* sep.join(parts)
RECURSIVE Join(_, _)
Join(parts, sep) ==
    IF parts = << >> THEN << >>
    ELSE IF Len(parts) = 1 THEN parts[1]
    ELSE parts[1] \o sep \o Join(Tail(parts), sep)

(* ------------------------------ encodings ----------------------------- *)
CANDIDATE_ENCODINGS == << "utf-8-sig", "utf-8", "shift_jis", "cp1252", "latin-1" >>

\* what a decode or an encode that raises stands for
Undecodable == << -2 >>

\* the byte order mark utf-8-sig skips when decoding and writes when encoding
BOM == << 239, 187, 191 >>

HasBom(data) == Len(data) >= 3 /\ SubSeq(data, 1, 3) = BOM

\* length of the UTF-8 sequence a byte starts, 0 when it starts none
Utf8Len(c) ==
    IF c < 128 THEN 1
    ELSE IF c >= 194 /\ c <= 223 THEN 2
    ELSE IF c >= 224 /\ c <= 239 THEN 3
    ELSE IF c >= 240 /\ c <= 244 THEN 4
    ELSE 0

\* the sequence at the head of b is complete and well formed
Utf8HeadOk(b) ==
    LET m == Utf8Len(b[1])
    IN  /\ m > 0 /\ Len(b) >= m
        /\ \A k \in 2..m : b[k] >= 128 /\ b[k] <= 191
        /\ (b[1] = 224 => b[2] >= 160)
        /\ (b[1] = 237 => b[2] <= 159)
        /\ (b[1] = 240 => b[2] >= 144)
        /\ (b[1] = 244 => b[2] <= 143)

Utf8HeadChar(b) ==
    LET m == Utf8Len(b[1])
    IN  IF m = 1 THEN b[1]
        ELSE IF m = 2 THEN (b[1] - 192) * 64 + (b[2] - 128)
        ELSE IF m = 3
             THEN (b[1] - 224) * 4096 + (b[2] - 128) * 64 + (b[3] - 128)
        ELSE (b[1] - 240) * 262144 + (b[2] - 128) * 4096
             + (b[3] - 128) * 64 + (b[4] - 128)

\* b.decode("utf-8", errors="strict")
RECURSIVE Utf8Decode(_)
Utf8Decode(b) ==
    IF b = << >> THEN << >>
    ELSE IF ~Utf8HeadOk(b) THEN Undecodable
    ELSE LET rest == Utf8Decode(SubSeq(b, Utf8Len(b[1]) + 1, Len(b)))
         IN  IF rest = Undecodable THEN Undecodable
             ELSE << Utf8HeadChar(b) >> \o rest

Utf8Bytes(c) ==
    IF c < 128 THEN << c >>
    ELSE IF c < 2048 THEN << 192 + (c \div 64), 128 + (c % 64) >>
    ELSE IF c < 65536
         THEN << 224 + (c \div 4096), 128 + ((c \div 64) % 64), 128 + (c % 64) >>
    ELSE << 240 + (c \div 262144), 128 + ((c \div 4096) % 64),
            128 + ((c \div 64) % 64), 128 + (c % 64) >>

\* s.encode("utf-8")
RECURSIVE Utf8Encode(_)
Utf8Encode(s) ==
    IF s = << >> THEN << >> ELSE Utf8Bytes(Head(s)) \o Utf8Encode(Tail(s))

\* b.decode("shift_jis", errors="strict"): any byte SjisDecode would skip
\* raises
RECURSIVE SjisDecodeStrict(_)
SjisDecodeStrict(b) ==
    IF b = << >> THEN << >>
    ELSE LET c == Head(b)
             one == c < 128 \/ (c >= 161 /\ c <= 223)
             two == IsLeadByte(c) /\ Len(b) >= 2 /\ SjisPair(c, b[2]) # -1
             rest == IF one THEN SjisDecodeStrict(Tail(b))
                     ELSE IF two THEN SjisDecodeStrict(Tail(Tail(b)))
                     ELSE Undecodable
         IN  IF rest = Undecodable THEN Undecodable
             ELSE IF one THEN << (IF c < 128 THEN c ELSE 65216 + c) >> \o rest
             ELSE << SjisPair(c, b[2]) >> \o rest

\* cp1252: the characters of the bytes 0x80..0x9F, 0 where the byte has none
Cp1252High ==
    << 8364, 0, 8218, 402, 8222, 8230, 8224, 8225, 710, 8240, 352, 8249,
       338, 0, 381, 0, 0, 8216, 8217, 8220, 8221, 8226, 8211, 8212, 732,
       8482, 353, 8250, 339, 0, 382, 376 >>

Cp1252Char(c) == IF c >= 128 /\ c <= 159 THEN Cp1252High[c - 127] ELSE c

\* the byte of a character in cp1252, -1 when it has none
Cp1252Byte(c) ==
    IF c < 128 \/ (c >= 160 /\ c <= 255) THEN c
    ELSE IF \E k \in 1..32 : Cp1252High[k] = c
         THEN 127 + (CHOOSE k \in 1..32 : Cp1252High[k] = c)
    ELSE -1

\* data.decode(encoding, errors="strict"), Undecodable when it raises
Decode(data, encoding) ==
    CASE encoding = "utf-8-sig" ->
           Utf8Decode(IF HasBom(data) THEN SubSeq(data, 4, Len(data)) ELSE data)
      [] encoding = "utf-8" -> Utf8Decode(data)
      [] encoding = "shift_jis" -> SjisDecodeStrict(data)
      [] encoding = "cp1252" ->
           IF \E k \in 1..Len(data) : Cp1252Char(data[k]) = 0 THEN Undecodable
           ELSE [k \in 1..Len(data) |-> Cp1252Char(data[k])]
      [] encoding = "latin-1" -> data

\* txt.encode(encoding), Undecodable when it raises
Encode(txt, encoding) ==
    CASE encoding = "utf-8-sig" -> BOM \o Utf8Encode(txt)
      [] encoding = "utf-8" -> Utf8Encode(txt)
      [] encoding = "shift_jis" ->
           IF \E k \in 1..Len(txt) : ~can_encode_shift_jis(txt[k])
           THEN Undecodable ELSE SjisEncode(txt)
      [] encoding = "cp1252" ->
           IF \E k \in 1..Len(txt) : Cp1252Byte(txt[k]) = -1 THEN Undecodable
           ELSE [k \in 1..Len(txt) |-> Cp1252Byte(txt[k])]
      [] encoding = "latin-1" ->
           IF \E k \in 1..Len(txt) : txt[k] > 255 THEN Undecodable ELSE txt

\* the first candidate that decodes the bytes
detect_encoding(data) ==
    LET ok == { k \in 1..Len(CANDIDATE_ENCODINGS) :
                  Decode(data, CANDIDATE_ENCODINGS[k]) # Undecodable }
    IN  IF ok = {} THEN "latin-1" ELSE CANDIDATE_ENCODINGS[FirstIn(ok)]

CRLF == << Ch.cr, Ch.lf >>
LF == << Ch.lf >>

detect_newline(text) ==
    IF Contains(text, CRLF) /\ ~(text # << >> /\ text[Len(text)] = Ch.cr)
    THEN CRLF ELSE LF

load_text(raw) ==
    LET encoding == detect_encoding(raw)
        text == Decode(raw, encoding)
    IN  [ txt |-> text, enc |-> encoding, nl |-> detect_newline(text) ]

\* the text save_text writes: every line break becomes the chosen one
NormalizedText(text, newline) ==
    LET normalized == Replace(Replace(text, CRLF, LF), << Ch.cr >>, LF)
    IN  IF newline = CRLF THEN Replace(normalized, LF, CRLF) ELSE normalized

\* save_text(path, text, encoding, newline, backup) on a file of bytes
\* file whose .bak is bak; the backup is written before the text is encoded
save_text(file, bak, text, encoding, newline, backup) ==
    LET out == Encode(NormalizedText(text, newline), encoding)
        bak2 == IF backup /\ bak = NoFile THEN file ELSE bak
    IN  IF out = Undecodable
        THEN [ ok |-> FALSE, file |-> file, bak |-> bak2 ]
        ELSE [ ok |-> TRUE, file |-> out, bak |-> bak2 ]

(* ------------------------------ key=value ----------------------------- *)
is_kv_line(line) ==
    LET stripped == LStrip(line)
    IN  /\ stripped # << >>
        /\ stripped[1] \notin { Ch.hash, Ch.semi }
        /\ \E k \in 1..Len(line) : line[k] = Ch.eq

\* line.find("=") as a 1-based position, 0 when there is none
FindEq(line) ==
    LET ks == { k \in 1..Len(line) : line[k] = Ch.eq }
    IN  IF ks = {} THEN 0 ELSE FirstIn(ks)

split_kv(line) ==
    LET idx == FindEq(line)
    IN  IF idx = 0
        THEN [ left |-> line, right |-> << >>, key |-> << >>, value |-> << >> ]
        ELSE [ left |-> SubSeq(line, 1, idx - 1),
               right |-> SubSeq(line, idx + 1, Len(line)),
               key |-> Strip(SubSeq(line, 1, idx - 1)),
               value |-> Strip(SubSeq(line, idx + 1, Len(line))) ]

normalize_kv(key, value) == Strip(key) \o << Ch.eq >> \o Strip(value)

\* the characters 'line.rstrip(" \t")' removes
SpaceTab == { Ch.space, Ch.tab }

(* ------------------------ inputs of the editor ------------------------ *)
\* lines of a title.cfg: a formatted key, a key with spaces around '=' and
\* a trailing space, a comment holding '=' with a trailing tab, a blank
\* line
CfgLineTexts ==
    { << Ch.k, Ch.eq, Ch.v >>,
      << Ch.k, Ch.space, Ch.eq, Ch.space, Ch.v, Ch.space >>,
      << Ch.hash, Ch.space, Ch.eq, Ch.tab >>,
      << >> }

\* how the lines are put together: byte order mark, line break, ending.
\* The ending 0xA0 makes the file cp1252 (a no-break space), the ending
\* 0x81 makes it latin-1; the other files are UTF-8.
CfgStyles ==
    { [ bom |-> FALSE, sep |-> LF, end |-> << >> ],
      [ bom |-> FALSE, sep |-> LF, end |-> LF ],
      [ bom |-> FALSE, sep |-> CRLF, end |-> CRLF ],
      [ bom |-> TRUE, sep |-> CRLF, end |-> << Ch.cr >> ],
      [ bom |-> FALSE, sep |-> LF, end |-> << 160, Ch.lf >> ],
      [ bom |-> FALSE, sep |-> LF, end |-> << 129 >> ] }

CfgFiles ==
    { (IF st.bom THEN BOM ELSE << >>) \o Join(ls, st.sep) \o st.end :
        ls \in UNION { [1..m -> CfgLineTexts] : m \in 0..MaxCfgLines },
        st \in CfgStyles }

\* input() raised EOFError
EndOfInput == << -1 >>

\* what the user types at "New value": nothing, q, QA, a value, a value
\* with blanks around it, HIRAGANA A; or the input is at its end
CfgAnswers ==
    { << >>, EndOfInput, << Ch.q >>, << Ch.Q, Ch.A >>, << Ch.w >>,
      << Ch.space, Ch.w, Ch.tab >>, << 12354 >> }

\* new_val: input(...).rstrip("\n"), "" on EOFError
NewVal(typed) ==
    IF typed = EndOfInput THEN << >> ELSE RStripChars(typed, { Ch.lf })

(* --------------------- process_file and main (SpecCfg) ---------------- *)
InitCfg ==
    /\ no_backup \in BOOLEAN
    /\ cfg_file = << >> /\ cfg_bak = NoFile /\ cfg_orig = << >>
    /\ enc = "none" /\ nl = LF
    /\ lines = << >> /\ new_lines = << >> /\ line_k = 0
    /\ changed = FALSE /\ quit_all = FALSE
    /\ cfg_res = "none" /\ cfg_pc = "next" /\ file_n = 0
    /\ title_offset = TITLE_OFFSET_DEFAULT
    /\ block_len = TITLE_BLOCK_LEN_DEFAULT
    /\ do_backup = TRUE
    /\ p_data = << >> /\ p_bak = NoFile /\ p_perm = "rw" /\ orig = << >>
    /\ op = "none"
    /\ line1 = << >> /\ line2 = << >>
    /\ status = "none"
    /\ cur = NoPreview
    /\ edits = 0
    /\ i = 0 /\ pc = "off" /\ in1 = << >> /\ in2 = << >> /\ errors = 0

\* the next file of the list, as the loop of main finds it
CfgOpen(d) ==
    /\ cfg_pc = "next" /\ file_n < NumFiles
    /\ file_n' = file_n + 1
    /\ cfg_file' = d /\ cfg_orig' = d
    /\ cfg_bak' = NoFile
    /\ UNCHANGED << no_backup, iconVars, mainVars >>

\* load_text raises: "ERROR reading", return False
CfgLoadFails ==
    /\ \E d \in CfgFiles : CfgOpen(d)
    /\ cfg_res' = "ReadError"
    /\ cfg_pc' = "report"
    /\ UNCHANGED << enc, nl, lines, new_lines, line_k, changed, quit_all >>

\* txt, enc, nl = load_text(p); lines = txt.splitlines()
CfgLoad ==
    /\ \E d \in CfgFiles :
          /\ CfgOpen(d)
          /\ enc' = load_text(d).enc
          /\ nl' = load_text(d).nl
          /\ lines' = SplitLines(load_text(d).txt)
    /\ new_lines' = << >> /\ line_k' = 0
    /\ changed' = FALSE /\ quit_all' = FALSE
    /\ cfg_res' = "none"
    /\ cfg_pc' = "lines"

\* the line the loop is at, with its trailing spaces and tabs removed
CfgLine == RStripChars(lines[line_k + 1], SpaceTab)

\* 'current_norm' of that line
CurrentNorm == normalize_kv(split_kv(CfgLine).key, split_kv(CfgLine).value)

\* the loop is at a line
AtLine == cfg_pc = "lines" /\ line_k < Len(lines)

CfgFrame ==
    UNCHANGED << no_backup, cfg_file, cfg_bak, cfg_orig, enc, nl, lines,
                 cfg_res, cfg_pc, file_n, iconVars, mainVars >>

\* a comment, a blank line or a line without '=': kept, trimmed
CfgPlainLine ==
    /\ AtLine /\ ~is_kv_line(CfgLine)
    /\ new_lines' = Append(new_lines, CfgLine)
    /\ line_k' = line_k + 1
    /\ UNCHANGED << changed, quit_all >>
    /\ CfgFrame

\* 'qa': quit_all is set, the line is kept normalized, the loop goes on
CfgQuitAll ==
    /\ AtLine /\ is_kv_line(CfgLine)
    /\ \E a \in CfgAnswers : Lower(NewVal(a)) = << Ch.q, Ch.a >>
    /\ quit_all' = TRUE
    /\ new_lines' = Append(new_lines, CurrentNorm)
    /\ line_k' = line_k + 1
    /\ UNCHANGED changed
    /\ CfgFrame

\* 'q': the line is kept normalized, the remaining lines are appended with
\* only their trailing spaces removed, and the loop ends
CfgStopFile ==
    /\ AtLine /\ is_kv_line(CfgLine)
    /\ \E a \in CfgAnswers : Lower(NewVal(a)) = << Ch.q >>
    /\ LET kept == Append(new_lines, CurrentNorm)
           rem == PySlice(lines, Len(kept), Len(lines))
       IN  new_lines' = kept \o [k \in 1..Len(rem) |-> RStripChars(rem[k], SpaceTab)]
    /\ line_k' = Len(lines)
    /\ UNCHANGED << changed, quit_all >>
    /\ CfgFrame

\* blank (or the input at its end): the value is kept, the line normalized
CfgKeep ==
    /\ AtLine /\ is_kv_line(CfgLine)
    /\ \E a \in CfgAnswers : NewVal(a) = << >>
    /\ new_lines' = Append(new_lines, CurrentNorm)
    /\ changed' = (changed \/ CurrentNorm # CfgLine)
    /\ line_k' = line_k + 1
    /\ UNCHANGED quit_all
    /\ CfgFrame

\* a new value: the line becomes key=new value, normalized
CfgSet ==
    /\ AtLine /\ is_kv_line(CfgLine)
    /\ \E a \in CfgAnswers :
          /\ NewVal(a) # << >>
          /\ Lower(NewVal(a)) \notin { << Ch.q >>, << Ch.q, Ch.a >> }
          /\ LET new_line == normalize_kv(split_kv(CfgLine).key, NewVal(a))
             IN  /\ new_lines' = Append(new_lines, new_line)
                 /\ changed' = (changed \/ new_line # CfgLine)
    /\ line_k' = line_k + 1
    /\ UNCHANGED quit_all
    /\ CfgFrame

\* the loop is over
LoopDone == cfg_pc = "lines" /\ line_k = Len(lines)

\* the .bak save_text may find next to the file: none, or an older one
CfgBackups == { NoFile, << Ch.k >> }

\* save_text(p, "\n".join(new_lines), enc, nl, not no_backup) when the
\* .bak it finds is bak
Saving(bak) ==
    save_text(cfg_file, bak, Join(new_lines, LF), enc, nl, ~no_backup)

\* changed: save_text(...), "Saved."
CfgSave ==
    /\ LoopDone /\ changed
    /\ \E bak \in CfgBackups :
          /\ Saving(bak).ok
          /\ cfg_file' = Saving(bak).file
          /\ cfg_bak' = Saving(bak).bak
    /\ cfg_res' = "Saved"
    /\ cfg_pc' = "report"
    /\ UNCHANGED << no_backup, cfg_orig, enc, nl, lines, new_lines, line_k,
                    changed, quit_all, file_n, iconVars, mainVars >>

\* changed, and save_text raises (the text has no bytes in the encoding, or
\* the file system refuses the backup or the file): "ERROR writing",
\* return False
CfgSaveFails ==
    /\ LoopDone /\ changed
    /\ \E bak \in CfgBackups : cfg_bak' \in { bak, Saving(bak).bak }
    /\ cfg_res' = "WriteError"
    /\ cfg_pc' = "report"
    /\ UNCHANGED << no_backup, cfg_file, cfg_orig, enc, nl, lines, new_lines,
                    line_k, changed, quit_all, file_n, iconVars, mainVars >>

\* not changed: "No changes."
CfgNoChanges ==
    /\ LoopDone /\ ~changed
    /\ cfg_res' = "NoChanges"
    /\ cfg_pc' = "report"
    /\ UNCHANGED << no_backup, cfg_file, cfg_bak, cfg_orig, enc, nl, lines,
                    new_lines, line_k, changed, quit_all, file_n, iconVars,
                    mainVars >>

\* what process_file returns: quit_all, False after an error
ProcessFileReturns == cfg_res \in { "Saved", "NoChanges" } /\ quit_all

\* main: 'if quit_all: break', else the next file
CfgAdvance ==
    /\ cfg_pc = "report"
    /\ cfg_pc' = IF ProcessFileReturns THEN "done" ELSE "next"
    /\ cfg_file' = << >> /\ cfg_bak' = NoFile /\ cfg_orig' = << >>
    /\ enc' = "none" /\ nl' = LF
    /\ lines' = << >> /\ new_lines' = << >> /\ line_k' = 0
    /\ changed' = FALSE
    /\ cfg_res' = "none"
    /\ UNCHANGED << no_backup, quit_all, file_n, iconVars, mainVars >>

\* the list is exhausted: print("Done.")
CfgDone ==
    /\ cfg_pc = "next" /\ file_n = NumFiles
    /\ cfg_pc' = "done"
    /\ UNCHANGED << no_backup, cfg_file, cfg_bak, cfg_orig, enc, nl, lines,
                    new_lines, line_k, changed, quit_all, cfg_res, file_n,
                    iconVars, mainVars >>

NextCfg ==
    \/ CfgLoadFails \/ CfgLoad
    \/ CfgPlainLine \/ CfgQuitAll \/ CfgStopFile \/ CfgKeep \/ CfgSet
    \/ CfgSave \/ CfgSaveFails \/ CfgNoChanges
    \/ CfgAdvance \/ CfgDone

SpecCfg == InitCfg /\ [][NextCfg]_vars

(* ======================= properties of the codec ====================== *)
\* the title block the texts of the last call encode to, byte k (1-based)
ExpectedBlockByte(k) ==
    LET comb == encode_line(line1) \o encode_line(line2)
    IN  IF k <= Len(comb) THEN comb[k] ELSE 0

\* the region [title_offset, title_offset + block_len) holds the block
BlockWritten ==
    /\ Len(p_data) >= title_offset + block_len
    /\ \A k \in 1..block_len : p_data[title_offset + k] = ExpectedBlockByte(k)

\* the byte at 0x06 is the encoded length of line 1
SplitWritten ==
    /\ Len(p_data) >= 7
    /\ p_data[7] = Len(encode_line(line1))

\* offset 0x06 lies inside the title block
BlockCoversSplit == title_offset <= 6 /\ 6 < title_offset + block_len

\* C1 as stated: after a successful write_titles, for every layout, the
\* byte at 0x06 is len(encoded(line1)) and the title block holds
\* encoded(line1) ++ encoded(line2), truncated or zero padded to block_len.
C1_AsStated == (status = "ok") => (SplitWritten /\ BlockWritten)

\* C1 amended: after a successful write_titles the title block holds
\* encoded(line1) ++ encoded(line2) truncated or zero padded to block_len,
\* and the byte at 0x06 is len(encoded(line1)) when offset 0x06 lies outside
\* the title block (the block is written last and wins otherwise).
C1_BlockAndSplit ==
    (status = "ok") => (BlockWritten /\ (~BlockCoversSplit => SplitWritten))

\* a successful write of two non-empty lines that leaves room for padding
C1_Witness ==
    /\ status = "ok" /\ ~BlockCoversSplit
    /\ line1 # << >> /\ line2 # << >>
    /\ 0 < Len(encode_line(line1))
    /\ Len(encode_line(line1)) + Len(encode_line(line2)) < block_len

\* C2 as stated: write_titles fails with Overflow if and only if
\* len(encoded(line1)) > block_len, and then neither the file nor the
\* backup is touched.
C2_AsStated ==
    /\ [](op # "none" =>
            ((status = "Overflow") <=> (Len(encode_line(line1)) > block_len)))
    /\ [][(op' = "write" /\ status' = "Overflow")
            => (p_data' = p_data /\ p_bak' = p_bak)]_vars

\* C2 amended: write_titles fails with Overflow if and only if both lines
\* have at most 16 characters and len(encoded(line1)) > block_len (a line of
\* more than 16 characters fails with LineTooLong first); when it fails this
\* way the file bytes are unchanged and no backup is created.
C2_Overflow ==
    /\ [](op # "none" =>
            ((status = "Overflow") <=>
                (/\ Len(line1) <= 16 /\ Len(line2) <= 16
                 /\ Len(encode_line(line1)) > block_len)))
    /\ [][(op' = "write" /\ status' = "Overflow")
            => (p_data' = p_data /\ p_bak' = p_bak)]_vars

\* an Overflow on a file that backups are enabled for
C2_Witness ==
    /\ op = "write" /\ status = "Overflow" /\ do_backup
    /\ p_bak = NoFile /\ p_data = orig /\ Len(orig) > 0

\* C3: LineTooLong is raised if and only if line 1 or line 2 has more than
\* 16 characters as typed, whatever the other line is; a rejected call
\* leaves the file unwritten.
C3_LineTooLong ==
    /\ [](op # "none" =>
            ((status = "LineTooLong") <=> (Len(line1) > 16 \/ Len(line2) > 16)))
    /\ [][(op' = "write" /\ status' = "LineTooLong")
            => (p_data' = p_data /\ p_bak' = p_bak)]_vars

\* line 1 of exactly 16 characters accepted, line 2 of 17 rejected
C3_Witness ==
    /\ op = "write" /\ status = "LineTooLong"
    /\ Len(line1) = 16 /\ Len(line2) = 17

\* every character is a space or printable ASCII (0x21..0x7E)
AsciiMappable(text) ==
    \A k \in 1..Len(text) : text[k] = 32 \/ (text[k] >= 33 /\ text[k] <= 126)

\* C4 as stated: when both lines (at most 16 characters each, all of them
\* ASCII-mappable) fit the block, write_titles followed by
\* read_current_titles returns the two lines as typed.
C4_RoundTrip ==
    ( /\ op = "read" /\ status = "ok" /\ ~BlockCoversSplit
      /\ AsciiMappable(line1) /\ AsciiMappable(line2)
      /\ 2 * (Len(line1) + Len(line2)) <= block_len )
    => (cur = << line1, line2 >>)

\* C5: a successful write never shortens the file, grows it only with zero
\* bytes and only up to max(title_offset + block_len, 7), and leaves every
\* byte other than 0x06 and the title block as it was.
Frame(old, new) ==
    /\ Len(new) = Max(Len(old), Max(title_offset + block_len, 7))
    /\ \A k \in 1..Len(new) :
          (k # 7 /\ ~(k > title_offset /\ k <= title_offset + block_len))
             => new[k] = (IF k <= Len(old) THEN old[k] ELSE 0)

C5_Frame == [][(op' = "write" /\ status' = "ok") => Frame(p_data, p_data')]_vars

\* a successful write on a file that was too short and not empty
C5_Witness ==
    /\ op = "write" /\ status = "ok"
    /\ Len(orig) > 0 /\ Len(orig) < Len(p_data)
    /\ \E k \in 1..Len(orig) : orig[k] # 0

\* C8: with backups enabled the .bak holds the bytes the file had before
\* the first edit, whatever the number of edits; it is written no later
\* than the file and never rewritten; with --no-backup there is no .bak.
C8_BackupOnce ==
    /\ [](~do_backup => p_bak = NoFile)
    /\ [](p_bak # NoFile => p_bak = orig)
    /\ []((do_backup /\ (edits > 0 \/ p_data # orig)) => p_bak = orig)
    /\ [][p_bak # NoFile => p_bak' = p_bak]_vars

\* two edits done, the file changed, the backup still the first bytes
C8_Witness ==
    /\ do_backup /\ edits = 2 /\ p_data # orig /\ p_bak = orig
    /\ orig # << >>

(* ====================== properties of the main loop =================== *)
\* the byte stored at 0x06, 0 when the file is too short to have one
StoredSplit(d) == IF Len(d) >= 7 THEN d[7] ELSE 0

\* the bytes of the title block that exist in the file
ExistingBlock(d) ==
    [k \in 1..Max(0, Min(block_len, Len(d) - title_offset)) |->
        d[title_offset + k]]

\* the bytes before the first zero byte
UpToZero(b) ==
    SubSeq(b, 1, Cardinality({ k \in 1..Len(b) : \A j \in 1..k : b[j] # 0 }))

\* what the preview of a file is to show
ExpectedPreview(d) ==
    LET blk == ExistingBlock(d)
        s == Min(StoredSplit(d), block_len)
        raw1 == [k \in 1..Min(s, Len(blk)) |-> blk[k]]
        raw2 == [k \in 1..Max(0, Len(blk) - s) |-> blk[s + k]]
    IN  << decode_fw_sjis_to_ascii(UpToZero(raw1)),
           decode_fw_sjis_to_ascii(UpToZero(raw2)) >>

\* C6: read_current_titles returns a pair of texts for every file, of any
\* length and with any split byte, and changes nothing: the split it uses
\* is min(stored split, block_len), 0 without a byte 0x06; each line is
\* decoded from the bytes that exist in its part of the title block, cut at
\* the first zero byte.
C6_Preview ==
    (pc = "prompt") =>
        /\ cur = ExpectedPreview(p_data)
        /\ EffectiveSplit(p_data, block_len)
              = Min(StoredSplit(p_data), block_len)
        /\ p_data = orig /\ p_bak = NoFile

\* a preview of a file that ends inside the title block and stores a split
\* larger than the block
C6_Witness ==
    /\ pc = "prompt"
    /\ Len(p_data) > title_offset
    /\ Len(p_data) < title_offset + block_len
    /\ StoredSplit(p_data) > block_len
    /\ cur[1] # << >>

\* C7 as stated: when a prompt is answered with a blank (the other answer
\* at most 16 characters, the file writable, the split byte outside the
\* block), the file is written and the line left blank decodes after the
\* write to what it decoded to before.
C7_BlankKeeps ==
    ( /\ pc = "report" /\ op # "none"
      /\ status \notin { "Quit", "Skipped" }
      /\ p_perm = "rw" /\ ~BlockCoversSplit
      /\ Len(in1) <= 16 /\ Len(in2) <= 16
      /\ (in1 = << >> \/ in2 = << >>) )
    => ( /\ status = "ok"
         /\ LET after == read_current_titles(p_data, title_offset, block_len)
            IN  /\ (in1 = << >> => after[1] = cur[1])
                /\ (in2 = << >> => after[2] = cur[2]) )

\* the outcomes that print an "ERROR" line
Errors == { "ReadError", "LineTooLong", "Overflow", "IOFailure" }

\* C9: an error on one file (reading, a line too long, overflow, writing)
\* leaves that file as it was and the loop goes on with the next file; the
\* files are taken one at a time, in order, each finished before the next
\* begins; without 'q' all of them are taken, and the run reaches "Done."
\* (until then the program always has a step, and every step brings it
\* closer: StepsLeft decreases).
StepsLeft ==
    IF pc = "done" THEN 0
    ELSE 1 + 4 * (NumFiles - i)
           + (CASE pc = "next" -> 0 [] pc = "report" -> 2
                [] pc = "prompt" -> 3)

C9_BatchContinues ==
    /\ [](status \in Errors => p_data = orig)
    /\ [][(pc = "report" /\ status \in Errors) => pc' = "next"]_vars
    /\ [][i' = i \/ (i' = i + 1 /\ pc = "next")]_vars
    /\ []((pc = "done" /\ status # "Quit") => i = NumFiles)
    /\ [](pc # "done" => ENABLED Next)
    /\ [][StepsLeft' < StepsLeft]_vars

\* "Done." after every file was taken, at least one of them with an error
C9_Witness ==
    /\ pc = "done" /\ status # "Quit"
    /\ i = NumFiles /\ errors >= 1

(* ================= properties of the title.cfg editor ================= *)
\* the lines of the file as process_file left it
SavedLines == SplitLines(Decode(cfg_file, enc))

\* no space or tab next to the first '=' of a key=value line
KvFormatted(line) ==
    is_kv_line(line) =>
        LET idx == FindEq(line)
        IN  /\ (idx > 1 => line[idx - 1] \notin SpaceTab)
            /\ (idx < Len(line) => line[idx + 1] \notin SpaceTab)

NoTrailingBlank(line) == line = << >> \/ line[Len(line)] \notin SpaceTab

\* the saved file has the lines of the loaded one, in their order
LinesPreserved == Len(SavedLines) = Len(lines)

\* every line of the saved file is formatted
SavedFormatted ==
    \A k \in 1..Len(SavedLines) :
        KvFormatted(SavedLines[k]) /\ NoTrailingBlank(SavedLines[k])

\* C10 as stated: every file process_file saves has its key=value lines
\* written as key=value with no spaces around '=', no line ending in a
\* space or a tab, and as many lines as before.
C10_FormatEnforced == cfg_res = "Saved" => (LinesPreserved /\ SavedFormatted)

====
